---- MODULE Spec2Model ----
(***************************************************************************)
(* Model of web.py, the Streamlit entry script of the Milvus Product       *)
(* Analytics Dashboard.  One run of the script is one page render:         *)
(* handle_app_errors() calls main(), which walks through the steps         *)
(* set_page_config, initialize_session_state, load_cached_css, header,     *)
(* setup_chatbot_optimized, create_chatbot_interface, cleanup_old_data.    *)
(* st.session_state is the dictionary that survives from run to run.       *)
(* The clock is in seconds.                                                *)
(***************************************************************************)
EXTENDS Integers, Sequences, FiniteSets, TLC

VARIABLES
    CHATBOT_AVAILABLE,  \* module flag set by the import of chatbot.RnDChatbot
    session_state,      \* st.session_state: a function from the present keys
    now,                \* datetime.now(), in seconds
    pc,                 \* position of the current script run ("idle": none)
    exc,                \* exception raised out of main() in this run
    outcome,            \* how the last run of handle_app_errors ended
    trigger,            \* what started this run: "interaction", "reset_click",
                        \* "st.rerun" ("none" before the first run)
    inactive_2h,        \* this run began more than 2 hours after last_activity
    setup_ret,          \* value returned by setup_chatbot_optimized in this run
    chatbot_cache,      \* st.cache_resource entry of initialize_cached_chatbot
    rnd_call,           \* what the last RnDChatbot() did ("none": never called)
    chatbot_ret,        \* outcome of the last initialize_cached_chatbot() call
    conn_cache,         \* st.cache_data entry of get_connection_status
    milvus_call,        \* what connect_to_milvus did in the last call
    conn_ret            \* outcome of the last get_connection_status() call

vars == <<CHATBOT_AVAILABLE, session_state, now, pc, exc, outcome,
          trigger, inactive_2h, setup_ret, chatbot_cache,
          rnd_call, chatbot_ret, conn_cache, milvus_call, conn_ret>>

runVars == <<session_state, pc, exc, outcome, trigger, inactive_2h,
             setup_ret>>
chatbotVars == <<chatbot_cache, rnd_call, chatbot_ret>>
connVars == <<conn_cache, milvus_call, conn_ret>>

----------------------------------------------------------------------------
(* Bounds of the model *)

\* the clock advances in steps of TickSeconds, at most MaxTicks times
TickSeconds == 3600
MaxTicks == 3
\* page_load_count is capped: no new run starts once it reached MaxLoads
MaxLoads == 3
\* create_chatbot_interface appends no entry, one entry or a burst of
\* MaxAppend entries in one run
MaxAppend == 26

(* Program constants *)

max_history == 50
inactivity_seconds == 7200
connection_ttl == 1800

----------------------------------------------------------------------------
(* Python values *)

None == << >>
Some(v) == <<v>>

\* the classes an exception can belong to, as the except clauses see them:
\* "Exception" and "AttributeError" derive from Exception; "BaseException"
\* stands for those that do not (SystemExit, KeyboardInterrupt, Streamlit's
\* script-control exceptions raised by st.stop() and st.rerun()).
RaisedKinds == {"Exception", "BaseException"}
\* a handler written `except AttributeError`
IsAttributeErrorOnly(e) == e = "AttributeError"

IsException(e) == e \in {"Exception", "AttributeError"}

(* st.session_state *)

EmptyState == [k \in {} |-> None]
HasKey(ss, k) == k \in DOMAIN ss
SetKey(ss, k, v) == [x \in DOMAIN ss \cup {k} |-> IF x = k THEN v ELSE ss[x]]
SetKeys(ss, upd) ==
    [x \in DOMAIN ss \cup DOMAIN upd |-> IF x \in DOMAIN upd THEN upd[x] ELSE ss[x]]

----------------------------------------------------------------------------
(* initialize_session_state *)

\* lines 75-78
InitAppGroup(ss) ==
    IF ~HasKey(ss, "app_initialized")
    THEN SetKeys(ss, [app_initialized |-> TRUE,
                      last_connection_check |-> None,
                      connection_status |-> None])
    ELSE ss

\* lines 80-84 without line 84
InitChatbotGroupNoLoading(ss) ==
    IF ~HasKey(ss, "chatbot_initialized")
    THEN SetKeys(ss, [chatbot_initialized |-> FALSE,
                      chatbot |-> None,
                      chat_history |-> << >>])
    ELSE ss

\* lines 81-84 without the guard of line 80
InitChatbotGroupUnguarded(ss) ==
    SetKeys(ss, [chatbot_initialized |-> FALSE,
                 chatbot |-> None,
                 chat_history |-> << >>,
                 chatbot_loading |-> FALSE])

\* lines 80-84
InitChatbotGroup(ss) ==
    IF ~HasKey(ss, "chatbot_initialized")
    THEN SetKeys(ss, [chatbot_initialized |-> FALSE,
                      chatbot |-> None,
                      chat_history |-> << >>,
                      chatbot_loading |-> FALSE])
    ELSE ss

\* lines 87-89
InitPerfGroup(ss, t) ==
    IF ~HasKey(ss, "page_load_count")
    THEN SetKeys(ss, [page_load_count |-> 0, last_activity |-> t])
    ELSE ss

\* line 92 without line 91
TrackActivityNoCount(ss, t) == SetKey(ss, "last_activity", t)

\* lines 91-92
TrackActivity(ss, t) ==
    SetKeys(ss, [page_load_count |-> ss.page_load_count + 1,
                 last_activity |-> t])

initialize_session_state(ss, t) ==
    TrackActivity(InitPerfGroup(InitChatbotGroup(InitAppGroup(ss)), t), t)

----------------------------------------------------------------------------
(* setup_chatbot_optimized *)

\* the keys the function reads on the path it takes (`not a and not b`
\* reads b only when a is false)
SetupReads(ss) ==
    IF ~CHATBOT_AVAILABLE
    THEN {"page_load_count"}
    ELSE IF HasKey(ss, "chatbot_initialized") /\ ss.chatbot_initialized
         THEN {"chatbot_initialized"}
         ELSE {"chatbot_initialized", "chatbot_loading"}

\* lines 105-106
SetupState(ss) ==
    IF CHATBOT_AVAILABLE /\ ~ss.chatbot_initialized /\ ~ss.chatbot_loading
    THEN SetKey(ss, "chatbot_loading", TRUE)
    ELSE ss

\* lines 102 and 107
SetupReturn(ss) ==
    IF ~CHATBOT_AVAILABLE THEN FALSE ELSE ss.chatbot_initialized

----------------------------------------------------------------------------
(* cleanup_old_data *)

CleanupReads == {"chat_history", "last_activity"}

\* h[-max_history:]
LastEntries(h, n) ==
    IF Len(h) <= n THEN h ELSE SubSeq(h, Len(h) - n + 1, Len(h))

\* line 163 keeping one entry too many
TruncateHistoryOffByOne(h) ==
    IF Len(h) > max_history THEN LastEntries(h, max_history + 1) ELSE h

\* line 163 written h[:max_history]
TruncateHistoryKeepFirst(h) ==
    IF Len(h) > max_history THEN SubSeq(h, 1, max_history) ELSE h

\* lines 161-163
TruncateHistory(h) ==
    IF Len(h) > max_history THEN LastEntries(h, max_history) ELSE h

\* line 166
IsStale(last_activity, t) == last_activity < t - inactivity_seconds

\* lines 166-168
ExpireConnection(ss, t) ==
    IF IsStale(ss.last_activity, t)
    THEN SetKeys(ss, [last_connection_check |-> None,
                      connection_status |-> None])
    ELSE ss

cleanup_old_data(ss, t) ==
    ExpireConnection(SetKey(ss, "chat_history", TruncateHistory(ss.chat_history)), t)

----------------------------------------------------------------------------
(* Cached helpers *)

\* lines 42-46 without the test of line 41
ChatbotResultUnguarded(made) ==
    IF made = "ok" THEN "RnDChatbot"
    ELSE IF IsException(made) THEN "None"
    ELSE "raised"

\* line 32 without the try of lines 31-34
ConnectionResultNoTry(call) ==
    IF call \in {"True", "False"} THEN call ELSE "raised"

\* lines 41-47, on a miss of the st.cache_resource entry: the value returned
\* ("None" or "RnDChatbot"), or "raised" when what RnDChatbot() raised leaves
\* the function.  made is what RnDChatbot() did: "ok" or the class of what it
\* raised.
ChatbotResult(made) ==
    IF ~CHATBOT_AVAILABLE THEN "None"
    ELSE IF made = "ok" THEN "RnDChatbot"
    ELSE IF IsException(made) THEN "None"
    ELSE "raised"

\* lines 31-34, on a miss of the st.cache_data entry: the value returned
\* ("True" or "False"), or "raised".  call is what connect_to_milvus() did:
\* the value it returned, or the class of what it raised.
ConnectionResult(call) ==
    IF call \in {"True", "False"} THEN call
    ELSE IF IsException(call) THEN "False"
    ELSE "raised"

\* st.cache_data(ttl=1800): an entry <<value, stored_at>> is served until it
\* is connection_ttl seconds old
CacheFresh(entry, t) == entry # None /\ t - entry[2] < connection_ttl

----------------------------------------------------------------------------
(* The state after the script is imported, before the first run *)

Init ==
    /\ CHATBOT_AVAILABLE \in BOOLEAN
    /\ session_state = EmptyState
    /\ now = 0
    /\ pc = "idle"
    /\ exc = "none"
    /\ outcome = "none"
    /\ trigger = "none"
    /\ inactive_2h = FALSE
    /\ setup_ret = None
    /\ chatbot_cache = "empty"
    /\ rnd_call = "none"
    /\ chatbot_ret = "none"
    /\ conn_cache = None
    /\ milvus_call = "none"
    /\ conn_ret = "none"

\* the wall clock advances.  main() reads it at lines 89-92 and 166 and the
\* interface while it renders, so time that passes between two runs, while
\* the interface renders and before the cleanup covers every reading.
Tick ==
    /\ pc \in {"idle", "create_chatbot_interface", "cleanup_old_data"}
    /\ now < MaxTicks * TickSeconds
    /\ now' = now + TickSeconds
    /\ UNCHANGED <<CHATBOT_AVAILABLE, runVars, chatbotVars, connVars>>

\* page_load_count stays within the bound of the model
LoadsLeft ==
    IF HasKey(session_state, "page_load_count")
    THEN session_state.page_load_count < MaxLoads
    ELSE TRUE

\* Streamlit starts a run of the script: line 197, handle_app_errors()
BeginRun(how, ss) ==
    /\ pc' = "set_page_config"
    /\ exc' = "none"
    /\ outcome' = "none"
    /\ trigger' = how
    /\ setup_ret' = None
    /\ inactive_2h' = IF HasKey(ss, "last_activity")
                      THEN IsStale(ss.last_activity, now)
                      ELSE FALSE

\* a page load or a widget interaction reruns the script
UserRerun ==
    /\ pc = "idle"
    /\ LoadsLeft
    /\ BeginRun("interaction", session_state)
    /\ UNCHANGED <<CHATBOT_AVAILABLE, session_state, now, chatbotVars, connVars>>

\* the user clicks the reset button that the last run rendered (line 190):
\* Streamlit reruns the script, in which st.button returns True where it is
\* called again
ClickReset ==
    /\ pc = "idle"
    /\ outcome = "error"
    /\ LoadsLeft
    /\ BeginRun("reset_click", session_state)
    /\ UNCHANGED <<CHATBOT_AVAILABLE, session_state, now, chatbotVars, connVars>>

\* a step of main() ran to its end
Advance(next) ==
    /\ pc' = next
    /\ UNCHANGED <<exc, outcome, trigger, inactive_2h>>

\* a step of main() raised e
Raise(e) ==
    /\ pc' = "raised"
    /\ exc' = e
    /\ UNCHANGED <<outcome, trigger, inactive_2h>>

\* the steps of main() that only call the framework or the style module:
\* lines 128-133, 139, 142
FrameworkSteps ==
    [set_page_config |-> "initialize_session_state",
     load_cached_css |-> "header",
     header |-> "setup_chatbot_optimized"]

FrameworkStep ==
    /\ pc \in DOMAIN FrameworkSteps
    /\ Advance(FrameworkSteps[pc])
    /\ UNCHANGED <<CHATBOT_AVAILABLE, session_state, now, setup_ret,
                   chatbotVars, connVars>>

\* the call a step of main() makes raises before the step changed anything
StepRaises ==
    /\ pc \in DOMAIN FrameworkSteps
            \cup {"initialize_session_state", "setup_chatbot_optimized",
                  "cleanup_old_data"}
    /\ \E e \in RaisedKinds : Raise(e)
    /\ UNCHANGED <<CHATBOT_AVAILABLE, session_state, now, setup_ret,
                   chatbotVars, connVars>>

\* line 136
InitializeSessionState ==
    /\ pc = "initialize_session_state"
    /\ session_state' = initialize_session_state(session_state, now)
    /\ Advance("load_cached_css")
    /\ UNCHANGED <<CHATBOT_AVAILABLE, now, setup_ret, chatbotVars, connVars>>

\* line 147; reading a key that is not in st.session_state raises
\* AttributeError
SetupChatbotOptimized ==
    /\ pc = "setup_chatbot_optimized"
    /\ IF SetupReads(session_state) \subseteq DOMAIN session_state
       THEN /\ session_state' = SetupState(session_state)
            /\ setup_ret' = Some(SetupReturn(session_state))
            /\ Advance("create_chatbot_interface")
       ELSE /\ Raise("AttributeError")
            /\ UNCHANGED <<session_state, setup_ret>>
    /\ UNCHANGED <<CHATBOT_AVAILABLE, now, chatbotVars, connVars>>

\* line 153; line 162 reads chat_history, line 166 last_activity
CleanupOldData ==
    /\ pc = "cleanup_old_data"
    /\ IF CleanupReads \subseteq DOMAIN session_state
       THEN /\ session_state' = cleanup_old_data(session_state, now)
            /\ pc' = "idle"
            /\ outcome' = "ok"
            /\ UNCHANGED <<exc, trigger, inactive_2h>>
       ELSE /\ Raise("AttributeError")
            /\ session_state' =
                 IF HasKey(session_state, "chat_history")
                 THEN SetKey(session_state, "chat_history",
                             TruncateHistory(session_state.chat_history))
                 ELSE session_state
    /\ UNCHANGED <<CHATBOT_AVAILABLE, now, setup_ret, chatbotVars, connVars>>

\* line 150: create_chatbot_interface() of ui/chatbot_interface.py renders the
\* chat and mutates the shared session state.  It appends k entries to
\* chat_history (entries are numbered in the order they are appended), may
\* store the connection status it found, may finish loading the chatbot that
\* setup_chatbot_optimized asked for, and may raise after that.
NextEntry(h) == IF h = << >> THEN 1 ELSE h[Len(h)] + 1

RECURSIVE AppendEntries(_, _)
AppendEntries(h, k) ==
    IF k = 0 THEN h ELSE AppendEntries(Append(h, NextEntry(h)), k - 1)

StoreConnection(ss, status, t) ==
    IF status = None THEN ss
    ELSE SetKeys(ss, [connection_status |-> status,
                      last_connection_check |-> Some(t)])

LoadChatbot(ss, load) ==
    IF load /\ ss.chatbot_loading /\ chatbot_cache = "RnDChatbot"
    THEN SetKeys(ss, [chatbot |-> Some("RnDChatbot"),
                      chatbot_initialized |-> TRUE,
                      chatbot_loading |-> FALSE])
    ELSE ss

CreateChatbotInterface ==
    /\ pc = "create_chatbot_interface"
    /\ \E k \in {0, 1, MaxAppend}, status \in {None, Some(TRUE)},
          load \in BOOLEAN, e \in {"none"} \cup RaisedKinds :
          /\ session_state' =
               LoadChatbot(
                 StoreConnection(
                   SetKey(session_state, "chat_history",
                          AppendEntries(session_state.chat_history, k)),
                   status, now),
                 load)
          /\ IF e = "none" THEN Advance("cleanup_old_data") ELSE Raise(e)
    /\ UNCHANGED <<CHATBOT_AVAILABLE, now, setup_ret, chatbotVars, connVars>>

\* lines 38-47: initialize_cached_chatbot(), called while the interface is
\* being rendered.  st.cache_resource keeps the first value returned (None
\* included) for the life of the server; an exception is not cached.
InitializeCachedChatbot ==
    /\ pc = "create_chatbot_interface"
    /\ IF chatbot_cache # "empty"
       THEN /\ chatbot_ret' = chatbot_cache
            /\ UNCHANGED <<chatbot_cache, rnd_call, pc, exc>>
       ELSE \E made \in {"ok"} \cup RaisedKinds :
              /\ rnd_call' = IF CHATBOT_AVAILABLE THEN made ELSE rnd_call
              /\ chatbot_ret' = ChatbotResult(made)
              /\ IF chatbot_ret' = "raised"
                 THEN /\ pc' = "raised"
                      /\ exc' = made
                      /\ UNCHANGED chatbot_cache
                 ELSE /\ chatbot_cache' = chatbot_ret'
                      /\ UNCHANGED <<pc, exc>>
    /\ UNCHANGED <<CHATBOT_AVAILABLE, session_state, now, outcome,
                   trigger, inactive_2h, setup_ret, connVars>>

\* lines 28-34: get_connection_status().  A fresh st.cache_data entry is
\* returned without calling connect_to_milvus; an exception is not cached.
GetConnectionStatus ==
    /\ IF CacheFresh(conn_cache, now)
       THEN /\ milvus_call' = "not called"
            /\ conn_ret' = conn_cache[1]
            /\ UNCHANGED conn_cache
       ELSE \E call \in {"True", "False"} \cup RaisedKinds :
              /\ milvus_call' = call
              /\ conn_ret' = ConnectionResult(call)
              /\ conn_cache' = IF conn_ret' = "raised" THEN conn_cache
                               ELSE <<conn_ret', now>>
    /\ UNCHANGED <<CHATBOT_AVAILABLE, now, runVars, chatbotVars>>

\* lines 177-193: the except clause of handle_app_errors.  An exception of
\* class Exception is caught: st.error shows the message and the reset button
\* is rendered; st.button returns True in the run its click triggered, and
\* then every key is deleted and st.rerun() starts the script again.
ExceptClause ==
    /\ pc = "raised"
    /\ IsException(exc)
    /\ IF trigger = "reset_click"
       THEN /\ session_state' = EmptyState
            /\ BeginRun("st.rerun", EmptyState)
       ELSE /\ pc' = "idle"
            /\ outcome' = "error"
            /\ UNCHANGED <<session_state, exc, trigger, inactive_2h,
                           setup_ret>>
    /\ UNCHANGED <<CHATBOT_AVAILABLE, now, chatbotVars, connVars>>

\* line 177: `except Exception` does not match; the exception leaves
\* handle_app_errors and the script run ends with it
Propagate ==
    /\ pc = "raised"
    /\ ~IsException(exc)
    /\ pc' = "idle"
    /\ outcome' = "propagated"
    /\ UNCHANGED <<CHATBOT_AVAILABLE, session_state, now, exc, trigger,
                   inactive_2h, setup_ret, chatbotVars, connVars>>

Next ==
    \/ Tick
    \/ UserRerun
    \/ ClickReset
    \/ FrameworkStep
    \/ StepRaises
    \/ InitializeSessionState
    \/ SetupChatbotOptimized
    \/ CreateChatbotInterface
    \/ InitializeCachedChatbot
    \/ CleanupOldData
    \/ ExceptClause
    \/ Propagate

Spec == Init /\ [][Next]_vars

\* get_connection_status called over time, outside any run of main()
NextConn ==
    \/ Tick
    \/ GetConnectionStatus

SpecConn == Init /\ [][NextConn]_vars

----------------------------------------------------------------------------
(* Properties *)

\* a run in which main() returned has just ended
RenderCompleted == pc = "idle" /\ outcome = "ok"

\* the step of the run that is taken from position a to position b
Step(a, b) == pc = a /\ pc' = b

\* C1: once cleanup_old_data has returned, and so at the end of every render
\* that main() completed, chat_history holds at most 50 entries, whatever the
\* interface appended during the render.
C1_HistoryCappedAfterCleanup ==
    RenderCompleted => Len(session_state.chat_history) <= max_history

\* a completed render whose cleanup dropped entries
C1_Witness ==
    /\ RenderCompleted
    /\ Len(session_state.chat_history) = max_history
    /\ session_state.chat_history[1] > 1

\* C2: cleanup_old_data on a history of n > 50 entries leaves exactly its last
\* 50 entries in their order, and leaves a history of n <= 50 entries as it is.
C2_OldestEvictedFirst ==
    [][Step("cleanup_old_data", "idle") =>
         LET h == session_state.chat_history
             g == session_state'.chat_history
             n == Len(h)
         IN  IF n > max_history
             THEN /\ Len(g) = max_history
                  /\ \A i \in 1..max_history : g[i] = h[n - max_history + i]
             ELSE g = h]_vars

\* a completed render whose cleanup dropped the two oldest of 52 entries
C2_Witness ==
    /\ RenderCompleted
    /\ Len(session_state.chat_history) = max_history
    /\ session_state.chat_history[1] = 3
    /\ session_state.chat_history[max_history] = max_history + 2

\* C3: whenever the user activates the reset control, every key of the session
\* state is deleted: no run that a click on the reset button triggered, and
\* that no uncaught exception cut short, ends with keys left in
\* st.session_state.
C3_ResetClearsAllKeys ==
    (pc = "idle" /\ trigger = "reset_click" /\ outcome # "propagated") =>
        session_state = EmptyState

\* C4 as claimed: whatever main() raises, handle_app_errors does not propagate
\* it and renders the error message.
C4_AnyExceptionCaught ==
    (pc = "idle" /\ exc # "none") => outcome = "error"

\* C4: an exception of class Exception raised by main() does not leave
\* handle_app_errors, which renders the error message: the run ends with the
\* message on the page, or, in a run the reset button triggered, with the
\* reset.
C4_ExceptionCaught ==
    [][(pc = "raised" /\ exc \in {"Exception", "AttributeError"}) =>
         \/ pc' = "idle" /\ outcome' = "error" /\ exc' = exc
         \/ trigger = "reset_click" /\ trigger' = "st.rerun"
                /\ pc' = "set_page_config"]_vars

\* main() raised an Exception and the run ended with the error message
C4_Witness ==
    pc = "idle" /\ exc = "Exception" /\ outcome = "error"

\* C5: no run reads a field of the session state that initialize_session_state
\* has not assigned: the fields setup_chatbot_optimized and cleanup_old_data
\* read are present when these run, and no AttributeError is raised.
C5_FieldsInitializedBeforeUse ==
    /\ exc # "AttributeError"
    /\ pc \in {"setup_chatbot_optimized", "create_chatbot_interface"} =>
         {"page_load_count", "chatbot_initialized", "chatbot_loading"}
             \subseteq DOMAIN session_state
    /\ pc = "cleanup_old_data" =>
         {"chat_history", "last_activity"} \subseteq DOMAIN session_state

\* the run that st.rerun() started on the emptied session state after a reset
\* went through setup_chatbot_optimized and cleanup_old_data
C5_Witness ==
    RenderCompleted /\ trigger = "st.rerun" /\ setup_ret # None

\* C6: a render that occurs more than 2 hours after the session's previous
\* activity ends with last_connection_check and connection_status set to None.
C6_StaleStateExpires ==
    (RenderCompleted /\ inactive_2h) =>
        /\ session_state.connection_status = None
        /\ session_state.last_connection_check = None

\* C7: last_activity never decreases and is never ahead of the clock, so that
\* its value after a render is at least its value after every earlier one
\* (across a reset too); initialize_session_state sets it to the clock and
\* adds exactly 1 to page_load_count (0 when absent), and no other step of a
\* run changes page_load_count.
C7_ActivityMonotone ==
    [][LET a == session_state
           b == session_state'
       IN  /\ (HasKey(a, "last_activity") /\ HasKey(b, "last_activity")) =>
                 b.last_activity >= a.last_activity
           /\ HasKey(b, "last_activity") => b.last_activity <= now'
           /\ Step("initialize_session_state", "load_cached_css") =>
                 /\ b.last_activity = now
                 /\ b.page_load_count =
                      (IF HasKey(a, "page_load_count")
                       THEN a.page_load_count ELSE 0) + 1
           /\ (~Step("initialize_session_state", "load_cached_css")
                 /\ HasKey(a, "page_load_count")
                 /\ HasKey(b, "page_load_count")) =>
                 b.page_load_count = a.page_load_count]_vars

\* the second render of a session, at a later time, passed
\* initialize_session_state
C7_Witness ==
    /\ pc = "load_cached_css"
    /\ session_state.page_load_count = 2
    /\ session_state.last_activity = now
    /\ now > 0

\* C8 as claimed: get_connection_status never raises, returns False when
\* connect_to_milvus raises anything, and else what connect_to_milvus returned.
C8_NeverRaises ==
    /\ conn_ret # "raised"
    /\ milvus_call \in {"Exception", "AttributeError", "BaseException"} =>
         conn_ret = "False"
    /\ milvus_call \in {"True", "False"} => conn_ret = milvus_call

\* C8: get_connection_status returns False when connect_to_milvus raises an
\* exception of class Exception, and what connect_to_milvus returned when it
\* returned; it raises only what connect_to_milvus raised outside Exception.
C8_FailureSwallowed ==
    /\ milvus_call \in {"Exception", "AttributeError"} => conn_ret = "False"
    /\ milvus_call \in {"True", "False"} => conn_ret = milvus_call
    /\ conn_ret = "raised" => milvus_call = "BaseException"

\* connect_to_milvus raised an Exception and the call returned False
C8_Witness ==
    milvus_call = "Exception" /\ conn_ret = "False"

\* C9 as claimed: with the flag false RnDChatbot() is never constructed,
\* initialize_cached_chatbot returns None and setup_chatbot_optimized returns
\* False; with the flag true, whatever RnDChatbot() raises,
\* initialize_cached_chatbot returns None and nothing propagates.
C9_NothingPropagates ==
    /\ ~CHATBOT_AVAILABLE =>
         /\ rnd_call = "none"
         /\ chatbot_ret \in {"none", "None"}
         /\ setup_ret \in {None, Some(FALSE)}
    /\ rnd_call \in {"Exception", "AttributeError", "BaseException"} =>
         chatbot_ret = "None"

\* C9: with the flag false RnDChatbot() is never constructed,
\* initialize_cached_chatbot returns None, and setup_chatbot_optimized returns
\* False and leaves chatbot_initialized and chatbot_loading as they were; with
\* the flag true and RnDChatbot() raising an exception of class Exception,
\* initialize_cached_chatbot returns None; it raises only what RnDChatbot()
\* raised outside Exception.
C9_ChatbotGuarded ==
    /\ [](/\ ~CHATBOT_AVAILABLE =>
               /\ rnd_call = "none"
               /\ chatbot_ret \in {"none", "None"}
               /\ setup_ret \in {None, Some(FALSE)}
          /\ rnd_call \in {"Exception", "AttributeError"} =>
               chatbot_ret = "None"
          /\ chatbot_ret = "raised" => rnd_call = "BaseException")
    /\ [][(~CHATBOT_AVAILABLE
             /\ Step("setup_chatbot_optimized", "create_chatbot_interface")) =>
            /\ setup_ret' = Some(FALSE)
            /\ session_state'.chatbot_initialized
                 = session_state.chatbot_initialized
            /\ session_state'.chatbot_loading
                 = session_state.chatbot_loading]_vars

\* with the flag false both functions were called: setup_chatbot_optimized
\* returned False and initialize_cached_chatbot returned None
C9_Witness ==
    /\ ~CHATBOT_AVAILABLE
    /\ setup_ret = Some(FALSE)
    /\ chatbot_ret = "None"
    /\ rnd_call = "none"

\* C10: initialize_session_state on a session that holds the guard keys
\* app_initialized, chatbot_initialized and page_load_count changes
\* page_load_count and last_activity and nothing else: chat_history, chatbot,
\* chatbot_initialized, chatbot_loading, connection_status and
\* last_connection_check keep their values and no key is added or removed.
C10_RerenderKeepsSessionData ==
    [][(Step("initialize_session_state", "load_cached_css")
          /\ {"app_initialized", "chatbot_initialized", "page_load_count"}
                \subseteq DOMAIN session_state) =>
         /\ DOMAIN session_state' = DOMAIN session_state
         /\ {"chat_history", "chatbot", "chatbot_initialized",
             "chatbot_loading", "connection_status", "last_connection_check"}
                \subseteq DOMAIN session_state
         /\ \A k \in DOMAIN session_state
                       \ {"page_load_count", "last_activity"} :
                session_state'[k] = session_state[k]]_vars

\* a later render passed initialize_session_state with the chat history, the
\* chatbot and the connection status of earlier renders in place
C10_Witness ==
    /\ pc = "load_cached_css"
    /\ session_state.page_load_count = 3
    /\ session_state.chat_history # << >>
    /\ session_state.chatbot_initialized
    /\ session_state.connection_status # None

====
